---- MODULE Spec2Model ----
(***************************************************************************)
(* Comment model of src/lib/models/comments/comment.ts: display parts,     *)
(* comment tags and comments living in a heap of objects (so that sharing  *)
(* between a comment and its clone, or between a deserialized list and the *)
(* deferred link queue, is visible), the header/body split, and the        *)
(* serialize / deserialize / deferred-resolution protocol.                 *)
(***************************************************************************)
EXTENDS Integers, Sequences, FiniteSets, TLC

VARIABLES
    heap,     \* the objects: parts, arrays, tags, modifier sets, comments
    pc,       \* position of the scenario being run
    parts,    \* splitPartsToHeaderAndBody: address of the argument array
    given,    \* the argument's contents when the call was made
    result,   \* splitPartsToHeaderAndBody: the returned { header, body }
    args,     \* new Comment(summary, blockTags, modifierTags): the arguments
    comment,  \* address of the comment under study (0: none yet)
    copy,     \* address of comment.clone() (0: none yet)
    last,     \* the comment the latest mutation was applied to (0: none)
    steps,    \* mutations applied so far
    obj,      \* the serialized comment: comment.toObject(serializer)
    de,       \* the Deserializer of the session
    revived,  \* address of the comment filled by fromObject (0: none yet)
    useHtml,  \* displayPartsToMarkdown: the useHtml argument
    markdown, \* displayPartsToMarkdown: what each part pushed, and the result
    types,    \* the Type objects: an address is an index into this table
    subject,  \* address of the IndexedAccessType under study (0: none yet)
    twin,     \* address of subject.clone() (0: none yet)
    touched,  \* the type the latest mutation was reached from (0: none)
    edits,    \* mutations applied to the types so far
    sessions  \* the deserialization sessions: each one's Deserializer and calls

vars == <<heap, pc, parts, given, result, args, comment, copy, last, steps, obj, de, revived,
          useHtml, markdown, types, subject, twin, touched, edits, sessions>>
typeVars == <<types, subject, twin, touched, edits>>
splitVars == <<parts, result, useHtml, markdown>>
commentVars == <<args, comment, copy, last, steps>>
serialVars == <<obj, de, revived>>

-----------------------------------------------------------------------------
(* Bounds of the model *)

\* longest display-part list handed to splitPartsToHeaderAndBody
MaxParts == 3
\* most characters in all the texts of one such list together
MaxChars == 3
\* longest summary handed to the Comment constructor
MaxSummary == 2
\* most mutations applied to a comment and its clone
MaxMutations == 1
\* most Type objects built before an IndexedAccessType is cloned
MaxTypes == 3
\* most mutations applied to an IndexedAccessType and its clone
MaxEdits == 1
\* most calls of deserializeDisplayParts in one deserialization session
MaxCalls == 2

-----------------------------------------------------------------------------
(* Strings are sequences of characters; a tag name or a rendered number is *)
(* one element.                                                            *)

NL == "\n"
Chars == {"a", " ", NL}
Whitespace == {" ", NL}

\* the value `undefined` of an optional string field
Undef == <<"undefined">>

\* every string over Chars of length at most n
RECURSIVE StringsUpTo(_)
StringsUpTo(n) ==
    IF n = 0 THEN {<<>>}
    ELSE LET shorter == StringsUpTo(n - 1)
         IN shorter \cup {Append(s, c) : s \in {t \in shorter : Len(t) = n - 1}, c \in Chars}

\* String.prototype.includes("\n")
includesNL(s) == \E i \in 1..Len(s) : s[i] = NL

\* String.prototype.indexOf("\n"), 1-based; 0 stands for -1
indexOfNL(s) ==
    IF includesNL(s) THEN CHOOSE i \in 1..Len(s) : s[i] = NL /\ \A j \in 1..(i - 1) : s[j] # NL
    ELSE 0

\* String.prototype.substring(from, to) on 1-based inclusive positions
substring(s, from, to) == IF from > to THEN <<>> ELSE SubSeq(s, from, to)

\* String.prototype.trim
trim(s) ==
    LET keep == {i \in 1..Len(s) : s[i] \notin Whitespace}
    IN IF keep = {} THEN <<>>
       ELSE LET lo == CHOOSE i \in keep : \A j \in keep : i <= j
                hi == CHOOSE i \in keep : \A j \in keep : j <= i
            IN SubSeq(s, lo, hi)

-----------------------------------------------------------------------------
(* Display parts.  Every part is a record of the same shape; a field the   *)
(* part's kind does not have holds its `undefined`.                        *)
(* target.t: "none" (undefined), "null", "url" (a string, v its index),    *)
(* "node" (a Reflection, v its id), "sym" (a ReflectionSymbolId),          *)
(* "media" (a number).                                                     *)

Target(t, v) == [t |-> t, v |-> v]
NoTarget == Target("none", 0)

TextPart(kind, text) ==
    [kind |-> kind, tag |-> "", text |-> text, target |-> NoTarget, tsLinkText |-> Undef]
InlineTag(tag, text, target, tsLinkText) ==
    [kind |-> "inline-tag", tag |-> tag, text |-> text, target |-> target, tsLinkText |-> tsLinkText]
RelativeLink(text, target) ==
    [kind |-> "relative-link", tag |-> "", text |-> text, target |-> target, tsLinkText |-> Undef]

\* Number.prototype.toString of a small number, as one element
NumStr(n) == CASE n = 0 -> "0" [] n = 1 -> "1" [] n = 2 -> "2" [] n = 3 -> "3" [] OTHER -> "9"
\* Reflection.getFullName of the node with this id, as one element
getFullName(id) == CASE id = 0 -> "N0" [] id = 1 -> "N1" [] id = 2 -> "N2" [] OTHER -> "N9"

\* the text one part adds in combineDisplayParts
CombineOne(item) ==
    CASE item.kind \in {"text", "code"} -> item.text
      [] item.kind = "inline-tag" -> <<"{", item.tag, " ">> \o item.text \o <<"}">>
      [] item.kind = "relative-link" ->
            <<"{rel:",
              IF item.target.t = "media" THEN NumStr(item.target.v)
              ELSE getFullName(item.target.v),
              "}">>

\* Comment.combineDisplayParts over a sequence of part records
RECURSIVE combineDisplayParts(_)
combineDisplayParts(ps) ==
    IF ps = <<>> THEN <<>>
    ELSE CombineOne(Head(ps)) \o combineDisplayParts(Tail(ps))

\* the string a "url" target stands for: index 0 is the empty string
UrlText(v) == IF v = 0 THEN <<>> ELSE <<"u">>
\* urlTo(reflection): the page of the node with this id
urlTo(id) == <<"/", getFullName(id)>>
\* ReflectionKind.classString(reflection.kind)
classString(id) == <<"tsd-kind">>

\* if (part.target): absent, null and the empty string are falsy
TargetTruthy(target) ==
    ~ (target.t \in {"none", "null"} \/ (target.t = "url" /\ target.v = 0))

\* the url a truthy link target resolves to; <<>> stands for undefined
LinkUrl(target) ==
    CASE target.t = "url" -> UrlText(target.v)
      [] target.t = "node" -> urlTo(target.v)
      [] OTHER -> <<>>

\* the grave accent U+0060 that opens and closes markdown code, as one element
Backtick == "(grave)"

\* the visible text of a link with a truthy target, useHtml false
MarkdownLinkText(part) ==
    IF part.tag = "@linkcode" THEN <<Backtick>> \o part.text \o <<Backtick>>
    ELSE part.text

\* the visible text of a link with a truthy target, useHtml true
HtmlLinkText(part) ==
    IF part.tag = "@linkcode" THEN <<"<code>">> \o part.text \o <<"</code>">>
    ELSE part.text

\* what the link branch pushes for a part whose target is truthy
PushedLink(part, html) ==
    LET url == LinkUrl(part.target)
        kindClass == IF part.target.t = "node" THEN classString(part.target.v) ELSE <<>>
    IN IF html
       THEN IF url # <<>>
            THEN <<"<a href=\"">> \o url \o <<"\"">>
                 \o (IF kindClass # <<>> THEN <<" class=\"">> \o kindClass \o <<"\"">>
                     ELSE <<>>)
                 \o <<">">> \o HtmlLinkText(part) \o <<"</a>">>
            ELSE part.text
       ELSE IF url # <<>>
            THEN <<"[">> \o MarkdownLinkText(part) \o <<"](">> \o url \o <<")">>
            ELSE MarkdownLinkText(part)

\* what one part pushes onto the result array (<<>>: nothing is pushed)
PushedPart(part, html) ==
    CASE part.kind \in {"text", "code"} -> part.text
      [] part.kind = "inline-tag" ->
            CASE part.tag \in {"@label", "@inheritdoc"} -> <<>>
              [] part.tag \in {"@link", "@linkcode", "@linkplain"} ->
                    IF TargetTruthy(part.target) THEN PushedLink(part, html)
                    ELSE part.text
              [] OTHER -> <<"{", part.tag, " ">> \o part.text \o <<"}">>
      [] OTHER -> <<>>

\* what every part pushes, in order
PushedParts(ps, html) == [i \in 1..Len(ps) |-> PushedPart(ps[i], html)]

\* Array.prototype.join("")
RECURSIVE join(_)
join(pieces) == IF pieces = <<>> THEN <<>> ELSE Head(pieces) \o join(Tail(pieces))

\* displayPartsToMarkdown(parts, urlTo, useHtml)
displayPartsToMarkdown(ps, html) == join(PushedParts(ps, html))

-----------------------------------------------------------------------------
(* Types (src/lib/models/types/indexed-access.ts).  A Type object is a     *)
(* record of the table `types`; the children of an IndexedAccessType are   *)
(* addresses, so that two types sharing a child is visible.  The only      *)
(* other variant modelled is a leaf with a name.                           *)

NoTypes == types = <<>> /\ subject = 0 /\ twin = 0 /\ touched = 0 /\ edits = 0

\* a leaf Type object: toString() is its name
Leaf(name) == [type |-> "intrinsic", name |-> name, objectType |-> 0, indexType |-> 0]

\* new IndexedAccessType(objectType, indexType)
newIndexedAccessType(T, objectType, indexType) ==
    LET T1 == Append(T, [type |-> "indexedAccess", name |-> "",
                         objectType |-> objectType, indexType |-> indexType])
    IN [T |-> T1, ret |-> Len(T1)]

RECURSIVE TypeClone(_, _)
RECURSIVE TypeToString(_, _)

\* IndexedAccessType.clone, mutated: the children are handed over uncloned
IndexedAccessCloneShared(T, t) ==
    newIndexedAccessType(T, T[t].objectType, T[t].indexType)

\* IndexedAccessType.clone()
IndexedAccessClone(T, t) ==
    LET o == TypeClone(T, T[t].objectType)
        i == TypeClone(o.T, T[t].indexType)
    IN newIndexedAccessType(i.T, o.ret, i.ret)

\* IndexedAccessType.toString()
IndexedAccessToString(T, t) ==
    TypeToString(T, T[t].objectType) \o <<"[">> \o TypeToString(T, T[t].indexType) \o <<"]">>

\* type.clone(), dispatched on the variant; a leaf's clone is a new leaf
\* with the same name
TypeClone(T, t) ==
    IF T[t].type = "indexedAccess" THEN IndexedAccessClone(T, t)
    ELSE [T |-> Append(T, Leaf(T[t].name)), ret |-> Len(T) + 1]

\* type.toString(), dispatched on the variant
TypeToString(T, t) ==
    IF T[t].type = "indexedAccess" THEN IndexedAccessToString(T, t) ELSE <<T[t].name>>

\* the Type objects reachable from t through objectType and indexType, t included
RECURSIVE Reach(_, _)
Reach(T, t) ==
    IF T[t].type = "indexedAccess"
    THEN {t} \cup Reach(T, T[t].objectType) \cup Reach(T, T[t].indexType)
    ELSE {t}

-----------------------------------------------------------------------------
(* The heap.  An address is an index into one of the five tables.          *)

EmptyHeap == [parts |-> <<>>, arrs |-> <<>>, tags |-> <<>>, sets |-> <<>>, comments |-> <<>>]

\* the part records an array of parts holds
PartsOf(H, a) == [i \in 1..Len(H.arrs[a]) |-> H.parts[H.arrs[a][i]]]

\* a literal array of fresh part objects: [{...}, {...}]
NewPartArray(H, ps) ==
    LET n == Len(H.parts)
        H1 == [H EXCEPT !.parts = @ \o ps,
                        !.arrs = Append(@, [i \in 1..Len(ps) |-> n + i])]
    IN [H |-> H1, ret |-> Len(H1.arrs)]

\* Comment.cloneDisplayParts, mutated: the parts themselves are not copied
cloneDisplayPartsShallow(H, src) ==
    LET H1 == [H EXCEPT !.arrs = Append(@, src)]
    IN [H |-> H1, ret |-> Len(H1.arrs)]

\* Comment.cloneDisplayParts(parts): parts.map((p) => ({ ...p })); src is the
\* sequence of part addresses of the argument
cloneDisplayParts(H, src) ==
    LET n == Len(H.parts)
        H1 == [H EXCEPT !.parts = @ \o [i \in 1..Len(src) |-> H.parts[src[i]]],
                        !.arrs = Append(@, [i \in 1..Len(src) |-> n + i])]
    IN [H |-> H1, ret |-> Len(H1.arrs)]

-----------------------------------------------------------------------------
(* CommentTag and Comment objects                                          *)

\* JavaScript truthiness of an optional string
Truthy(str) == str # Undef /\ str # <<>>

\* new CommentTag(tag, text): name is left undefined
newCommentTag(H, tag, text) ==
    LET H1 == [H EXCEPT !.tags = Append(@, [tag |-> tag, name |-> Undef, content |-> text])]
    IN [H |-> H1, ret |-> Len(H1.tags)]

\* CommentTag.clone()
CommentTagClone(H, t) ==
    LET c == cloneDisplayParts(H, H.arrs[H.tags[t].content])
        n == newCommentTag(c.H, H.tags[t].tag, c.ret)
    IN [H |-> IF Truthy(H.tags[t].name)
              THEN [n.H EXCEPT !.tags[n.ret].name = H.tags[t].name]
              ELSE n.H,
        ret |-> n.ret]

\* this.blockTags.map((tag) => tag.clone()): the clones' addresses, in order
RECURSIVE cloneTags(_, _)
cloneTags(H, ts) ==
    IF ts = <<>> THEN [H |-> H, ret |-> <<>>]
    ELSE LET c == CommentTagClone(H, Head(ts))
             r == cloneTags(c.H, Tail(ts))
         IN [H |-> r.H, ret |-> <<c.ret>> \o r.ret]

\* summary.findIndex(inline-tag part with tag "@label"); 0 stands for -1
findLabelIndex(ps) ==
    LET hit(i) == ps[i].kind = "inline-tag" /\ ps[i].tag = "@label"
    IN IF \E i \in 1..Len(ps) : hit(i)
       THEN CHOOSE i \in 1..Len(ps) : hit(i) /\ \A j \in 1..(i - 1) : ~hit(j)
       ELSE 0

\* Array.prototype.splice(index, 1) on a sequence
splice1(s, index) == SubSeq(s, 1, index - 1) \o SubSeq(s, index + 1, Len(s))

\* extractLabelTag(comment)
extractLabelTag(H, c) ==
    LET a == H.comments[c].summary
        index == findLabelIndex(PartsOf(H, a))
    IN IF index # 0
       THEN [H EXCEPT !.comments[c].label = H.parts[H.arrs[a][index]].text,
                      !.arrs[a] = splice1(@, index)]
       ELSE H

\* new Comment(summary, blockTags, modifierTags): the three arguments are
\* stored as given (addresses), then the label is extracted
newComment(H, summary, blockTags, modifierTags) ==
    LET H1 == [H EXCEPT !.comments = Append(@,
                   [summary |-> summary, blockTags |-> blockTags,
                    modifierTags |-> modifierTags, label |-> Undef,
                    sourcePath |-> Undef, discoveryId |-> Undef])]
        c == Len(H1.comments)
    IN [H |-> extractLabelTag(H1, c), ret |-> c]

\* Comment.clone()
CommentClone(H, x) ==
    LET this == H.comments[x]
        s == cloneDisplayParts(H, H.arrs[this.summary])
        t == cloneTags(s.H, H.arrs[this.blockTags])
        H1 == [t.H EXCEPT !.arrs = Append(@, t.ret),
                          !.sets = Append(@, H.sets[this.modifierTags])]
        n == newComment(H1, s.ret, Len(H1.arrs), Len(H1.sets))
    IN [H |-> [n.H EXCEPT !.comments[n.ret].discoveryId = this.discoveryId,
                          !.comments[n.ret].sourcePath = this.sourcePath],
        ret |-> n.ret]

\* Comment.removeModifier(tagName)
removeModifier(H, c, tagName) ==
    [H EXCEPT !.sets[H.comments[c].modifierTags] = @ \ {tagName}]

\* comment.modifierTags.add(tagName)
addModifier(H, c, tagName) ==
    [H EXCEPT !.sets[H.comments[c].modifierTags] = @ \cup {tagName}]

\* Comment.getTag(tagName): the address of the tag, 0 for undefined
getTag(H, c, tagName) ==
    LET found == SelectSeq(H.arrs[H.comments[c].blockTags], LAMBDA t : H.tags[t].tag = tagName)
    IN IF found = <<>> THEN 0 ELSE Head(found)

\* Comment.getTags(tagName)
getTags(H, c, tagName) ==
    SelectSeq(H.arrs[H.comments[c].blockTags], LAMBDA t : H.tags[t].tag = tagName)

\* Comment.getIdentifiedTag(identifier, tagName): 0 for undefined
getIdentifiedTag(H, c, identifier, tagName) ==
    LET found == SelectSeq(H.arrs[H.comments[c].blockTags],
                           LAMBDA t : H.tags[t].tag = tagName /\ H.tags[t].name = identifier)
    IN IF found = <<>> THEN 0 ELSE Head(found)

\* removeTags, mutated: only the first tag with the name is removed
removeFirstTag(H, c, tagName) ==
    LET ts == H.arrs[H.comments[c].blockTags]
        hits == {i \in 1..Len(ts) : H.tags[ts[i]].tag = tagName}
    IN IF hits = {} THEN H
       ELSE LET i == CHOOSE k \in hits : \A j \in hits : k <= j
            IN [H EXCEPT !.arrs[H.comments[c].blockTags] =
                    SubSeq(ts, 1, i - 1) \o SubSeq(ts, i + 1, Len(ts))]

\* Comment.removeTags(tagName): removeIf(this.blockTags, (tag) => tag.tag ===
\* tagName) deletes the matching elements from the array itself
removeTags(H, c, tagName) ==
    [H EXCEPT !.arrs[H.comments[c].blockTags] =
        SelectSeq(@, LAMBDA t : H.tags[t].tag # tagName)]

\* the structure of a tag: what a deep comparison sees
TagValue(H, t) ==
    [tag |-> H.tags[t].tag, name |-> H.tags[t].name, content |-> PartsOf(H, H.tags[t].content)]

\* the structure of a comment: what a deep comparison of every field sees
CommentValue(H, c) ==
    LET this == H.comments[c]
    IN [summary |-> PartsOf(H, this.summary),
        blockTags |-> [i \in 1..Len(H.arrs[this.blockTags]) |->
                          TagValue(H, H.arrs[this.blockTags][i])],
        modifierTags |-> H.sets[this.modifierTags],
        label |-> this.label,
        sourcePath |-> this.sourcePath,
        discoveryId |-> this.discoveryId]

\* the objects a comment owns, by table
Owned(H, c) ==
    LET this == H.comments[c]
        ts == {H.arrs[this.blockTags][i] : i \in 1..Len(H.arrs[this.blockTags])}
        as == {this.summary, this.blockTags} \cup {H.tags[t].content : t \in ts}
    IN [arrs |-> as,
        parts |-> UNION {{H.arrs[a][i] : i \in 1..Len(H.arrs[a])}
                         : a \in {this.summary} \cup {H.tags[t].content : t \in ts}},
        tags |-> ts,
        sets |-> {this.modifierTags}]

-----------------------------------------------------------------------------
(* Serialization.  A serialized part is a record of the same shape as a    *)
(* part; its target.t is "none" (absent), "str" (a string), "num" (a node  *)
(* identifier), "symobj" (a ReflectionSymbolId payload), "media"           *)
(* ({ media: n }) or "reflection" ({ reflection: id }).                    *)

\* an optional property of a serialized object
Absent == [present |-> FALSE, v |-> <<>>]
Present(v) == [present |-> TRUE, v |-> v]

\* serializeInlineTarget, mutated: the target is tested for truthiness first,
\* so the empty string (the string of index 0) is written as absent
serializeInlineTargetTruthy(target) ==
    IF target.t \in {"none", "null"} \/ (target.t = "url" /\ target.v = 0) THEN NoTarget
    ELSE IF target.t = "url" THEN Target("str", target.v)
    ELSE IF target.t = "node" THEN Target("num", target.v)
    ELSE Target("symobj", target.v)

\* the target serializeDisplayParts writes for an inline tag
serializeInlineTarget(target) ==
    IF target.t = "url" THEN Target("str", target.v)
    ELSE IF target.t \notin {"none", "null"}
         THEN IF target.t = "node" THEN Target("num", target.v)
              ELSE Target("symobj", target.v)
         ELSE NoTarget

\* serializeRelativeTarget, mutated: the target is tested for truthiness, so
\* the media number 0 takes the branch of a graph node
serializeRelativeTargetTruthy(target) ==
    IF target.t = "media" /\ target.v # 0 THEN Target("media", target.v)
    ELSE IF target.t \in {"node", "media"} THEN Target("reflection", target.v)
    ELSE Target("TypeError", 0)

\* the target serializeDisplayParts writes for a relative link; reading
\* .id of a target that is null or undefined throws a TypeError
serializeRelativeTarget(target) ==
    IF target.t = "media" THEN Target("media", target.v)
    ELSE IF target.t = "node" THEN Target("reflection", target.v)
    ELSE Target("TypeError", 0)

\* the callback of parts.map in serializeDisplayParts
serializePart(part) ==
    CASE part.kind \in {"text", "code"} -> part
      [] part.kind = "inline-tag" -> [part EXCEPT !.target = serializeInlineTarget(@)]
      [] part.kind = "relative-link" -> [part EXCEPT !.target = serializeRelativeTarget(@)]

\* Comment.serializeDisplayParts(serializer, parts), parts the address of an array
serializeDisplayParts(H, a) ==
    LET ps == PartsOf(H, a) IN [i \in 1..Len(ps) |-> serializePart(ps[i])]

\* CommentTag.toObject(serializer)
CommentTagToObject(H, t) ==
    [tag |-> H.tags[t].tag, name |-> H.tags[t].name,
     content |-> serializeDisplayParts(H, H.tags[t].content)]

\* Serializer.toObjectsOptional(tags): undefined for an empty list
toObjectsOptional(H, ts) ==
    IF ts = <<>> THEN Absent
    ELSE Present([i \in 1..Len(ts) |-> CommentTagToObject(H, ts[i])])

\* Array.from(set): the elements in some order
RECURSIVE ArrayFrom(_)
ArrayFrom(set) ==
    IF set = {} THEN <<>>
    ELSE LET e == CHOOSE x \in set : TRUE IN <<e>> \o ArrayFrom(set \ {e})

\* new Set(array | undefined)
NewSet(opt) == IF opt.present THEN {opt.v[i] : i \in 1..Len(opt.v)} ELSE {}

\* Comment.toObject(serializer)
CommentToObject(H, c) ==
    LET this == H.comments[c]
    IN [summary |-> serializeDisplayParts(H, this.summary),
        blockTags |-> toObjectsOptional(H, H.arrs[this.blockTags]),
        modifierTags |-> IF Cardinality(H.sets[this.modifierTags]) > 0
                         THEN Present(ArrayFrom(H.sets[this.modifierTags]))
                         ELSE Absent,
        label |-> this.label]

-----------------------------------------------------------------------------
(* Deserialization in two phases.  The Deserializer holds the remapping    *)
(* table, the project's node table, the logger and the deferred callbacks; *)
(* a callback is the `links` list its closure captured.                    *)

\* isLinked, mutated: a relative link to a node is not queued
isLinkedInlineOnly(jp) == jp.kind = "inline-tag" /\ jp.target.t = "num"

\* whether deserializeDisplayParts queues the part: its target names a node
isLinked(jp) ==
    \/ jp.kind = "inline-tag" /\ jp.target.t = "num"
    \/ jp.kind = "relative-link" /\ jp.target.t # "media"

\* the part the callback of parts.map in deserializeDisplayParts returns
deserializePart(jp) ==
    CASE jp.kind \in {"text", "code"} -> jp
      [] jp.kind = "inline-tag" ->
            IF jp.target.t = "num" THEN [jp EXCEPT !.target = NoTarget]
            ELSE IF jp.target.t \in {"str", "none"}
                 THEN [jp EXCEPT !.target =
                          IF jp.target.t = "str" THEN Target("url", jp.target.v) ELSE NoTarget]
                 ELSE [jp EXCEPT !.target = Target("sym", jp.target.v)]
      [] jp.kind = "relative-link" ->
            IF jp.target.t = "media" THEN [jp EXCEPT !.target = Target("media", jp.target.v)]
            ELSE [jp EXCEPT !.target = Target("null", 0)]

\* Deserializer.defer(cb): the callback is queued
defer(d, links) == [d EXCEPT !.deferred = Append(@, links)]

\* Comment.deserializeDisplayParts(de, parts): the new array, and the
\* deserializer with the callback queued when links is not empty
deserializeDisplayParts(H, d, jps) ==
    LET n == Len(H.parts)
        idx == [i \in 1..Len(jps) |-> i]
        linked == SelectSeq(idx, LAMBDA i : isLinked(jps[i]))
        links == [k \in 1..Len(linked) |-> <<jps[linked[k]].target.v, n + linked[k]>>]
        H1 == [H EXCEPT !.parts = @ \o [i \in 1..Len(jps) |-> deserializePart(jps[i])],
                        !.arrs = Append(@, [i \in 1..Len(jps) |-> n + i])]
    IN [H |-> H1,
        de |-> IF Len(links) # 0 THEN defer(d, links) ELSE d,
        ret |-> Len(H1.arrs)]

\* remappedId, mutated: an identifier with no entry is looked up as it is
remappedIdOrOld(d, oldId) ==
    IF oldId \in DOMAIN d.oldIdToNewId THEN d.oldIdToNewId[oldId] ELSE oldId

\* de.oldIdToNewId[oldId] ?? -1
remappedId(d, oldId) ==
    IF oldId \in DOMAIN d.oldIdToNewId THEN d.oldIdToNewId[oldId] ELSE -1

\* project.getReflectionById(id): the node, or undefined
getReflectionById(project, id) ==
    IF id \in project THEN Target("node", id) ELSE NoTarget

\* one turn of the loop of the deferred callback (lines 365-376)
resolveLink(H, d, project, link) ==
    LET oldId == link[1]
        part == link[2]
        target == getReflectionById(project, remappedId(d, oldId))
    IN [H |-> [H EXCEPT !.parts[part].target = target],
        de |-> [d EXCEPT !.lookups = @ + 1,
                         !.warnings = IF target.t = "none" THEN Append(@, oldId) ELSE @]]

\* deferredCallback, mutated: the loop ends at the first link that finds no node
RECURSIVE deferredCallbackStops(_, _, _, _)
deferredCallbackStops(H, d, project, links) ==
    IF links = <<>> THEN [H |-> H, de |-> d]
    ELSE LET r == resolveLink(H, d, project, Head(links))
         IN IF Len(r.de.warnings) > Len(d.warnings) THEN r
            ELSE deferredCallbackStops(r.H, r.de, project, Tail(links))

\* the deferred callback: for (const [oldId, part] of links) { ... }
RECURSIVE deferredCallback(_, _, _, _)
deferredCallback(H, d, project, links) ==
    IF links = <<>> THEN [H |-> H, de |-> d]
    ELSE LET r == resolveLink(H, d, project, Head(links))
         IN deferredCallback(r.H, r.de, project, Tail(links))

\* CommentTag.fromObject(de, obj) on the tag at address t
CommentTagFromObject(H, d, t, tagObj) ==
    LET c == deserializeDisplayParts(H, d, tagObj.content)
    IN [H |-> [c.H EXCEPT !.tags[t].name = tagObj.name, !.tags[t].content = c.ret],
        de |-> c.de]

\* obj.blockTags.map((tagObj) => { const tag = new CommentTag(tagObj.tag, []);
\* de.fromObject(tag, tagObj); return tag; })
RECURSIVE tagsFromObjects(_, _, _)
tagsFromObjects(H, d, tagObjs) ==
    IF tagObjs = <<>> THEN [H |-> H, de |-> d, ret |-> <<>>]
    ELSE LET e == [H EXCEPT !.arrs = Append(@, <<>>)]
             t == newCommentTag(e, Head(tagObjs).tag, Len(e.arrs))
             f == CommentTagFromObject(t.H, d, t.ret, Head(tagObjs))
             r == tagsFromObjects(f.H, f.de, Tail(tagObjs))
         IN [H |-> r.H, de |-> r.de, ret |-> <<t.ret>> \o r.ret]

\* Comment.fromObject(de, obj) on the comment at address c
CommentFromObject(H, d, c, o) ==
    LET s == deserializeDisplayParts(H, d, o.summary)
        t == tagsFromObjects(s.H, s.de, IF o.blockTags.present THEN o.blockTags.v ELSE <<>>)
        H1 == [t.H EXCEPT !.arrs = Append(@, t.ret),
                          !.sets = Append(@, NewSet(o.modifierTags))]
    IN [H |-> [H1 EXCEPT !.comments[c].summary = s.ret,
                         !.comments[c].blockTags = Len(H1.arrs),
                         !.comments[c].modifierTags = Len(H1.sets),
                         !.comments[c].label = o.label],
        de |-> t.de]

\* new Comment(): the defaults [], [] and new Set()
newEmptyComment(H) ==
    LET H1 == [H EXCEPT !.arrs = @ \o <<<<>>, <<>>>>, !.sets = Append(@, {})]
    IN newComment(H1, Len(H1.arrs) - 1, Len(H1.arrs), Len(H1.sets))

\* the deserializer before anything was deferred, and the object before toObject
NoSession ==
    [oldIdToNewId |-> <<>>, project |-> {}, deferred |-> <<>>, ran |-> 0,
     warnings |-> <<>>, lookups |-> 0]
NoObject == [summary |-> <<>>, blockTags |-> Absent, modifierTags |-> Absent, label |-> Undef]

\* Deserializer: the next deferred callback is run with the project, once
runDeferred(H, d) ==
    LET r == deferredCallback(H, d, d.project, d.deferred[d.ran + 1])
    IN [H |-> r.H, de |-> [r.de EXCEPT !.ran = @ + 1]]

\* the sessions, and their state before any of them has a Deserializer
SessionIds == {"A", "B"}
NoSessions == [s \in SessionIds |-> [de |-> NoSession, calls |-> <<>>]]

\* the callback of a call made in session s, mutated: the closure reads the
\* remapping table of the session created last instead of its own de
sessionCallbackLatest(H, S, s, links) ==
    LET r == deferredCallback(H, [S[s].de EXCEPT !.oldIdToNewId = S["B"].de.oldIdToNewId],
                              S[s].de.project, links)
    IN [H |-> r.H, de |-> [r.de EXCEPT !.oldIdToNewId = S[s].de.oldIdToNewId]]

\* the callback of a call made in session s as the Deserializer of s runs
\* it: the closure holds links and the de of its own call
sessionCallback(H, S, s, links) == deferredCallback(H, S[s].de, S[s].de.project, links)

-----------------------------------------------------------------------------
(* Comment.splitPartsToHeaderAndBody                                       *)

\* parts.findIndex(text or code part whose text includes "\n"); 0 stands for -1
findIndexNL(ps) ==
    LET hit(i) == ps[i].kind \in {"text", "code"} /\ includesNL(ps[i].text)
    IN IF \E i \in 1..Len(ps) : hit(i)
       THEN CHOOSE i \in 1..Len(ps) : hit(i) /\ \A j \in 1..(i - 1) : ~hit(j)
       ELSE 0

\* the index after "do not split a code block": --index when parts[index] is code
backUp(ps, index) == IF ps[index].kind = "code" THEN index - 1 ELSE index

\* body.shift() when body[0].text is empty
shiftEmpty(H, body) ==
    IF H.parts[H.arrs[body][1]].text = <<>>
    THEN [H EXCEPT !.arrs[body] = Tail(@)]
    ELSE H

\* the header of the path that found no newline (line 405)
headerNoNewline(ps) == combineDisplayParts(ps)

\* splitPartsToHeaderAndBody(parts), parts the address of an array
splitPartsToHeaderAndBody(H, a) ==
    LET src == H.arrs[a]
        ps == PartsOf(H, a)
        found == findIndexNL(ps)
    IN IF found = 0
       THEN LET e == [H EXCEPT !.arrs = Append(@, <<>>)]
            IN [H |-> e, header |-> headerNoNewline(ps), body |-> Len(e.arrs)]
       ELSE LET index == backUp(ps, found)
            IN IF index = 0
               THEN LET c == cloneDisplayParts(H, src)
                    IN [H |-> c.H, header |-> <<>>, body |-> c.ret]
               ELSE LET header0 == combineDisplayParts(SubSeq(ps, 1, index - 1))
                        text == ps[index].text
                        split == indexOfNL(text)
                    IN IF split = 0
                       THEN LET c == cloneDisplayParts(H, SubSeq(src, index + 1, Len(src)))
                            IN [H |-> shiftEmpty(c.H, c.ret),
                                header |-> trim(header0 \o text),
                                body |-> c.ret]
                       ELSE LET c == cloneDisplayParts(H, SubSeq(src, index, Len(src)))
                                b0 == c.H.arrs[c.ret][1]
                                H1 == [c.H EXCEPT !.parts[b0].text =
                                           substring(@, split + 1, Len(@))]
                            IN [H |-> shiftEmpty(H1, c.ret),
                                header |-> trim(header0 \o substring(text, 1, split - 1)),
                                body |-> c.ret]

-----------------------------------------------------------------------------
(* Specification of the header/body split: any list of parts is handed to  *)
(* splitPartsToHeaderAndBody once.                                         *)

\* the targets a relative link of an argument list has
SplitRelTargets == {Target("media", 0), Target("node", 1)}

\* the parts an argument list is made of
SplitParts ==
    LET texts == StringsUpTo(MaxChars)
    IN {TextPart(k, s) : k \in {"text", "code"}, s \in texts}
       \cup {InlineTag("@link", s, NoTarget, Undef) : s \in texts}
       \cup {RelativeLink(s, t) : s \in texts, t \in SplitRelTargets}

\* the characters of all the texts of a list of parts
RECURSIVE TotalChars(_)
TotalChars(ps) == IF ps = <<>> THEN 0 ELSE Len(Head(ps).text) + TotalChars(Tail(ps))

\* Array.prototype.push of a fresh object onto the array at address a
pushPart(H, a, p) ==
    [H EXCEPT !.parts = Append(@, p), !.arrs[a] = Append(@, Len(H.parts) + 1)]

NoResult == [header |-> Undef, body |-> 0]
NoMarkdown == [pushed |-> <<>>, text |-> Undef]

InitSplit ==
    /\ heap = NewPartArray(EmptyHeap, <<>>).H
    /\ parts = 1
    /\ given = <<>>
    /\ pc = "build"
    /\ result = NoResult /\ useHtml = FALSE /\ markdown = NoMarkdown /\ NoTypes /\ sessions = NoSessions
    /\ args = <<>>
    /\ comment = 0 /\ copy = 0 /\ last = 0 /\ steps = 0
    /\ obj = NoObject /\ de = NoSession /\ revived = 0

\* the caller builds the argument: parts.push({ kind, text, ... })
AddPart ==
    /\ pc = "build"
    /\ Len(heap.arrs[parts]) < MaxParts
    /\ \E p \in SplitParts :
          /\ TotalChars(PartsOf(heap, parts)) + Len(p.text) <= MaxChars
          /\ heap' = pushPart(heap, parts, p)
    /\ UNCHANGED <<pc, parts, given, result, useHtml, markdown, commentVars, serialVars, typeVars, sessions>>

\* const { header, body } = Comment.splitPartsToHeaderAndBody(parts)
Split ==
    /\ pc = "build"
    /\ LET r == splitPartsToHeaderAndBody(heap, parts)
       IN /\ heap' = r.H
          /\ result' = [header |-> r.header, body |-> r.body]
    /\ given' = PartsOf(heap, parts)
    /\ pc' = "done"
    /\ UNCHANGED <<parts, useHtml, markdown, commentVars, serialVars, typeVars, sessions>>

NextSplit == AddPart \/ Split

SpecSplit == InitSplit /\ [][NextSplit]_vars

-----------------------------------------------------------------------------
(* Specification of the rendering: any list of parts is handed to          *)
(* displayPartsToMarkdown once, with either value of useHtml.              *)

LinkTags == {"@link", "@linkcode", "@linkplain"}

\* the targets an inline link tag of a rendered list has: absent, the empty
\* string, a url, a resolved node, an unresolved symbol id
MarkdownTargets ==
    {NoTarget, Target("url", 0), Target("url", 1), Target("node", 1), Target("sym", 1)}

\* the parts a rendered list is made of
MarkdownParts ==
    {TextPart(k, <<"a">>) : k \in {"text", "code"}}
       \cup {InlineTag(tag, <<"a">>, t, Undef) : tag \in LinkTags, t \in MarkdownTargets}
       \cup {InlineTag(tag, <<"a">>, NoTarget, Undef) : tag \in {"@label", "@see"}}
       \cup {RelativeLink(<<"a">>, Target("node", 1))}

InitMarkdown ==
    /\ heap = NewPartArray(EmptyHeap, <<>>).H
    /\ parts = 1
    /\ given = <<>>
    /\ pc = "compose"
    /\ result = NoResult /\ useHtml = FALSE /\ markdown = NoMarkdown /\ NoTypes /\ sessions = NoSessions
    /\ args = <<>>
    /\ comment = 0 /\ copy = 0 /\ last = 0 /\ steps = 0
    /\ obj = NoObject /\ de = NoSession /\ revived = 0

\* the caller builds the argument: parts.push({ kind, text, ... })
AddMarkdownPart ==
    /\ pc = "compose"
    /\ Len(heap.arrs[parts]) < MaxParts
    /\ \E p \in MarkdownParts : heap' = pushPart(heap, parts, p)
    /\ UNCHANGED <<pc, parts, given, result, useHtml, markdown, commentVars, serialVars, typeVars, sessions>>

\* const text = displayPartsToMarkdown(parts, urlTo, useHtml)
Render ==
    /\ pc = "compose"
    /\ \E html \in BOOLEAN :
          /\ useHtml' = html
          /\ markdown' = [pushed |-> PushedParts(PartsOf(heap, parts), html),
                          text |-> displayPartsToMarkdown(PartsOf(heap, parts), html)]
    /\ given' = PartsOf(heap, parts)
    /\ pc' = "rendered"
    /\ UNCHANGED <<heap, parts, result, commentVars, serialVars, typeVars, sessions>>

NextMarkdown == AddMarkdownPart \/ Render

SpecMarkdown == InitMarkdown /\ [][NextMarkdown]_vars

-----------------------------------------------------------------------------
(* Specification of an IndexedAccessType's life: types are built, one      *)
(* IndexedAccessType is cloned, and the two are then mutated.              *)

TypeNames == {"A", "B"}

InitType ==
    /\ NoTypes /\ sessions = NoSessions
    /\ pc = "types"
    /\ heap = EmptyHeap /\ given = <<>> /\ args = <<>>
    /\ comment = 0 /\ copy = 0 /\ last = 0 /\ steps = 0
    /\ parts = 0 /\ result = NoResult /\ useHtml = FALSE /\ markdown = NoMarkdown
    /\ obj = NoObject /\ de = NoSession /\ revived = 0

\* a step on the types only
TypeStep == UNCHANGED <<heap, given, splitVars, commentVars, serialVars, sessions>>

\* a leaf type is created
NewLeaf ==
    /\ pc = "types"
    /\ Len(types) < MaxTypes
    /\ \E name \in TypeNames : types' = Append(types, Leaf(name))
    /\ UNCHANGED <<pc, subject, twin, touched, edits>>
    /\ TypeStep

\* new IndexedAccessType(objectType, indexType) over two existing types
NewIndexedAccess ==
    /\ pc = "types"
    /\ Len(types) < MaxTypes
    /\ \E o, i \in 1..Len(types) : types' = newIndexedAccessType(types, o, i).T
    /\ UNCHANGED <<pc, subject, twin, touched, edits>>
    /\ TypeStep

\* twin = subject.clone()
CloneType ==
    /\ pc = "types"
    /\ \E t \in 1..Len(types) :
          /\ types[t].type = "indexedAccess"
          /\ LET c == IndexedAccessClone(types, t)
             IN types' = c.T /\ twin' = c.ret
          /\ subject' = t
    /\ pc' = "typecloned"
    /\ UNCHANGED <<touched, edits>>
    /\ TypeStep

\* the two types a mutation may be reached from
Pair == IF pc = "typecloned" THEN {subject, twin} ELSE {}

\* a mutation reached from the type r
Edit(r, T) ==
    /\ pc = "typecloned"
    /\ edits < MaxEdits
    /\ types' = T
    /\ touched' = r
    /\ edits' = edits + 1
    /\ UNCHANGED <<pc, subject, twin>>
    /\ TypeStep

\* x.objectType = new leaf, x the type r or an indexed access below it
ReplaceObjectType ==
    \E r \in Pair : \E x \in Reach(types, r), name \in TypeNames :
        /\ types[x].type = "indexedAccess"
        /\ Edit(r, [Append(types, Leaf(name)) EXCEPT ![x].objectType = Len(types) + 1])

\* x.indexType = new leaf, x the type r or an indexed access below it
ReplaceIndexType ==
    \E r \in Pair : \E x \in Reach(types, r), name \in TypeNames :
        /\ types[x].type = "indexedAccess"
        /\ Edit(r, [Append(types, Leaf(name)) EXCEPT ![x].indexType = Len(types) + 1])

\* x.name = name, x a leaf below the type r
RenameLeaf ==
    \E r \in Pair : \E x \in Reach(types, r), name \in TypeNames :
        /\ types[x].type = "intrinsic"
        /\ Edit(r, [types EXCEPT ![x].name = name])

NextType ==
    \/ NewLeaf
    \/ NewIndexedAccess
    \/ CloneType
    \/ ReplaceObjectType
    \/ ReplaceIndexType
    \/ RenameLeaf

SpecType == InitType /\ [][NextType]_vars

-----------------------------------------------------------------------------
(* Specification of a comment's life: the parser's arrays are handed to    *)
(* the constructor, the converter records where the comment was found, the *)
(* comment is cloned, and the two comments are then mutated.               *)

TagNames == {"@param", "@returns"}
Modifiers == {"@alpha", "@beta"}

\* the parts a parsed summary is made of
SummaryParts ==
    {TextPart("text", <<"a">>),
     InlineTag("@label", <<"a">>, NoTarget, Undef),
     InlineTag("@label", <<"a", "a">>, NoTarget, Undef),
     InlineTag("@link", <<"a">>, Target("node", 1), Undef)}

\* every list of at most n summary parts
RECURSIVE Summaries(_)
Summaries(n) ==
    IF n = 0 THEN {<<>>}
    ELSE {<<>>} \cup {<<p>> \o rest : p \in SummaryParts, rest \in Summaries(n - 1)}

\* the block tags a parsed comment has: tag, name, content
ParamTag == [tag |-> "@param", name |-> <<"a">>, content |-> <<TextPart("text", <<"a">>)>>]
ParamTag2 == [tag |-> "@param", name |-> Undef, content |-> <<>>]
ReturnsTag ==
    [tag |-> "@returns", name |-> <<>>,
     content |-> <<InlineTag("@link", <<"a">>, Target("url", 1), Undef)>>]
BlockTagLists ==
    {<<>>, <<ParamTag>>, <<ParamTag, ReturnsTag>>, <<ParamTag2, ParamTag>>,
     <<ParamTag2, ReturnsTag, ParamTag>>}

\* the parser's tag: new CommentTag(tag, content), then tag.name = name
ParsedTag(H, tv) ==
    LET a == NewPartArray(H, tv.content)
        n == newCommentTag(a.H, tv.tag, a.ret)
    IN [H |-> [n.H EXCEPT !.tags[n.ret].name = tv.name], ret |-> n.ret]

RECURSIVE ParsedTags(_, _)
ParsedTags(H, tvs) ==
    IF tvs = <<>> THEN [H |-> H, ret |-> <<>>]
    ELSE LET t == ParsedTag(H, Head(tvs))
             r == ParsedTags(t.H, Tail(tvs))
         IN [H |-> r.H, ret |-> <<t.ret>> \o r.ret]

InitComment ==
    /\ \E ps \in Summaries(MaxSummary), tvs \in BlockTagLists, ms \in SUBSET {"@alpha"} :
          LET s == NewPartArray(EmptyHeap, ps)
              t == ParsedTags(s.H, tvs)
              H == [t.H EXCEPT !.arrs = Append(@, t.ret), !.sets = Append(@, ms)]
          IN /\ heap = H
             /\ args = <<s.ret, Len(H.arrs), Len(H.sets)>>
             /\ given = ps
    /\ pc = "args"
    /\ comment = 0 /\ copy = 0 /\ last = 0 /\ steps = 0
    /\ parts = 0 /\ result = NoResult /\ useHtml = FALSE /\ markdown = NoMarkdown /\ NoTypes /\ sessions = NoSessions
    /\ obj = NoObject /\ de = NoSession /\ revived = 0

\* comment = new Comment(summary, blockTags, modifierTags)
Construct ==
    /\ pc = "args"
    /\ LET n == newComment(heap, args[1], args[2], args[3])
       IN heap' = n.H /\ comment' = n.ret
    /\ pc' = "constructed"
    /\ UNCHANGED <<given, args, copy, last, steps, splitVars, typeVars, sessions, serialVars>>

\* the converter: comment.discoveryId = ...; comment.sourcePath = ...
Discover ==
    /\ pc = "constructed"
    /\ heap' = [heap EXCEPT !.comments[comment].discoveryId = <<"7">>,
                            !.comments[comment].sourcePath = <<"f">>]
    /\ pc' = "discovered"
    /\ UNCHANGED <<given, commentVars, splitVars, typeVars, sessions, serialVars>>

\* copy = comment.clone()
Clone ==
    /\ pc = "discovered"
    /\ LET c == CommentClone(heap, comment)
       IN heap' = c.H /\ copy' = c.ret
    /\ pc' = "cloned"
    /\ UNCHANGED <<given, args, comment, last, steps, splitVars, typeVars, sessions, serialVars>>

\* a mutation of comment c replaces the heap by H
Mutate(c, H) ==
    /\ pc = "cloned"
    /\ steps < MaxMutations
    /\ heap' = H
    /\ last' = c
    /\ steps' = steps + 1
    /\ UNCHANGED <<pc, given, args, comment, copy, splitVars, typeVars, sessions, serialVars>>

\* the comments a mutation may be applied to
Both == IF pc = "cloned" THEN {comment, copy} ELSE {}

RemoveModifier == \E c \in Both, m \in Modifiers : Mutate(c, removeModifier(heap, c, m))

AddModifier == \E c \in Both, m \in Modifiers : Mutate(c, addModifier(heap, c, m))

RemoveTags == \E c \in Both, n \in TagNames : Mutate(c, removeTags(heap, c, n))

\* c.summary.push({ kind: "text", text })
PushSummary ==
    \E c \in Both :
        Mutate(c, pushPart(heap, heap.comments[c].summary, TextPart("text", <<" ">>)))

\* c.summary.pop()
PopSummary ==
    \E c \in Both :
        /\ heap.arrs[heap.comments[c].summary] # <<>>
        /\ Mutate(c, [heap EXCEPT !.arrs[heap.comments[c].summary] = SubSeq(@, 1, Len(@) - 1)])

\* c.blockTags.push(new CommentTag("@returns", []))
PushBlockTag ==
    \E c \in Both :
        LET e == [heap EXCEPT !.arrs = Append(@, <<>>)]
            n == newCommentTag(e, "@returns", Len(e.arrs))
        IN Mutate(c, [n.H EXCEPT !.arrs[heap.comments[c].blockTags] = Append(@, n.ret)])

\* part.text = ... on a part of c's summary or of one of its tags
SetPartText ==
    \E c \in Both : \E p \in Owned(heap, c).parts :
        Mutate(c, [heap EXCEPT !.parts[p].text = <<" ">>])

\* part.target = ... on a part of c's summary or of one of its tags
SetPartTarget ==
    \E c \in Both : \E p \in Owned(heap, c).parts :
        Mutate(c, [heap EXCEPT !.parts[p].target = Target("url", 0)])

\* tag.name = ... on one of c's block tags
SetTagName ==
    \E c \in Both : \E t \in Owned(heap, c).tags :
        Mutate(c, [heap EXCEPT !.tags[t].name = <<" ">>])

\* tag.content.push({ kind: "text", text }) on one of c's block tags
PushTagContent ==
    \E c \in Both : \E t \in Owned(heap, c).tags :
        Mutate(c, pushPart(heap, heap.tags[t].content, TextPart("text", <<" ">>)))

NextComment ==
    \/ Construct
    \/ Discover
    \/ Clone
    \/ RemoveModifier
    \/ AddModifier
    \/ RemoveTags
    \/ PushSummary
    \/ PopSummary
    \/ PushBlockTag
    \/ SetPartText
    \/ SetPartTarget
    \/ SetTagName
    \/ PushTagContent

SpecComment == InitComment /\ [][NextComment]_vars

-----------------------------------------------------------------------------
(* Specification of a round trip: a comment is constructed, serialized     *)
(* with toObject, revived with fromObject into a fresh comment by a        *)
(* deserializer that knows the project's nodes and the remapping table,    *)
(* and the deferred callbacks are then run in order.                       *)

\* identifiers of graph nodes, in the serialized and in the revived project
NodeIds == {0, 1}

\* the parts a summary that is serialized is made of
SerialParts ==
    {TextPart("text", <<"a">>),
     InlineTag("@label", <<"a">>, NoTarget, Undef),
     InlineTag("@link", <<"a">>, NoTarget, Undef),
     InlineTag("@link", <<"a">>, Target("url", 0), Undef),
     InlineTag("@link", <<"a">>, Target("url", 1), Undef),
     InlineTag("@link", <<"a">>, Target("sym", 1), Undef),
     InlineTag("@link", <<"a">>, Target("node", 0), Undef),
     InlineTag("@linkcode", <<"a">>, Target("node", 1), <<"a">>),
     RelativeLink(<<"a">>, Target("media", 0)),
     RelativeLink(<<"a">>, Target("node", 0)),
     RelativeLink(<<"a">>, Target("node", 1))}

\* every list of at most n such parts
RECURSIVE SerialSummaries(_)
SerialSummaries(n) ==
    IF n = 0 THEN {<<>>}
    ELSE {<<>>} \cup {<<p>> \o rest : p \in SerialParts, rest \in SerialSummaries(n - 1)}

\* the block tags of a comment that is serialized
SerialParam ==
    [tag |-> "@param", name |-> <<"a">>,
     content |-> <<TextPart("code", <<"a">>), RelativeLink(<<"a">>, Target("media", 1))>>]
SerialReturns ==
    [tag |-> "@returns", name |-> Undef,
     content |-> <<InlineTag("@link", <<"a">>, Target("node", 0), Undef),
                   RelativeLink(<<"a">>, Target("node", 1))>>]
SerialTagLists == {<<>>, <<SerialParam>>, <<SerialReturns, SerialParam>>}

\* the remapping tables: any identifier may have no entry
RemappingTables == UNION {[D -> NodeIds] : D \in SUBSET NodeIds}

InitSerial ==
    /\ \E ps \in SerialSummaries(MaxSummary), tvs \in SerialTagLists, ms \in SUBSET {"@alpha"} :
          LET s == NewPartArray(EmptyHeap, ps)
              t == ParsedTags(s.H, tvs)
              H == [t.H EXCEPT !.arrs = Append(@, t.ret), !.sets = Append(@, ms)]
          IN /\ heap = H
             /\ args = <<s.ret, Len(H.arrs), Len(H.sets)>>
             /\ given = ps
    /\ \E m \in RemappingTables, pr \in SUBSET NodeIds :
          de = [NoSession EXCEPT !.oldIdToNewId = m, !.project = pr]
    /\ pc = "args"
    /\ comment = 0 /\ copy = 0 /\ last = 0 /\ steps = 0
    /\ parts = 0 /\ result = NoResult /\ useHtml = FALSE /\ markdown = NoMarkdown /\ NoTypes /\ sessions = NoSessions
    /\ obj = NoObject /\ revived = 0

\* obj = comment.toObject(serializer)
Serialize ==
    /\ pc = "discovered"
    /\ obj' = CommentToObject(heap, comment)
    /\ pc' = "serialized"
    /\ UNCHANGED <<heap, given, commentVars, splitVars, typeVars, sessions, de, revived>>

\* revived = new Comment(); revived.fromObject(de, obj)
Reconstruct ==
    /\ pc = "serialized"
    /\ LET n == newEmptyComment(heap)
           f == CommentFromObject(n.H, de, n.ret, obj)
       IN /\ heap' = f.H
          /\ de' = f.de
          /\ revived' = n.ret
    /\ pc' = "reconstructed"
    /\ UNCHANGED <<given, commentVars, splitVars, typeVars, sessions, obj>>

\* the deserializer runs the next deferred callback
RunDeferred ==
    /\ pc = "reconstructed"
    /\ de.ran < Len(de.deferred)
    /\ LET r == runDeferred(heap, de)
       IN heap' = r.H /\ de' = r.de
    /\ UNCHANGED <<pc, given, commentVars, splitVars, typeVars, sessions, obj, revived>>

NextSerial ==
    \/ Construct
    \/ Discover
    \/ Serialize
    \/ Reconstruct
    \/ RunDeferred

SpecSerial == InitSerial /\ [][NextSerial]_vars

-----------------------------------------------------------------------------
(* Specification of two deserialization sessions over one heap: each has   *)
(* its own Deserializer; the calls of deserializeDisplayParts and the runs *)
(* of the deferred callbacks of the two interleave in any order.           *)

\* the serialized lists a session reconstructs
SessionInputs ==
    {<<TextPart("text", <<"a">>)>>,
     <<InlineTag("@link", <<"a">>, Target("num", 1), Undef),
       RelativeLink(<<"a">>, Target("reflection", 0))>>,
     <<RelativeLink(<<"a">>, Target("media", 0)),
       InlineTag("@link", <<"a">>, Target("str", 1), Undef),
       RelativeLink(<<"a">>, Target("reflection", 1))>>}

\* the remapping tables and projects a session is created with
SessionTables == {m \in RemappingTables : DOMAIN m = {0}}
SessionProjects == {{1}, NodeIds}

InitSession ==
    /\ \E tables \in [SessionIds -> SessionTables], projects \in [SessionIds -> SessionProjects] :
          sessions = [s \in SessionIds |->
                        [de |-> [NoSession EXCEPT !.oldIdToNewId = tables[s],
                                                  !.project = projects[s]],
                         calls |-> <<>>]]
    /\ pc = "sessions"
    /\ heap = EmptyHeap /\ given = <<>> /\ args = <<>>
    /\ comment = 0 /\ copy = 0 /\ last = 0 /\ steps = 0
    /\ parts = 0 /\ result = NoResult /\ useHtml = FALSE /\ markdown = NoMarkdown /\ NoTypes
    /\ obj = NoObject /\ de = NoSession /\ revived = 0

\* a step of the sessions only
SessionStep == UNCHANGED <<pc, given, splitVars, commentVars, serialVars, typeVars>>

\* session s reconstructs a list: Comment.deserializeDisplayParts(de, parts)
DeserializeIn(s) ==
    /\ pc = "sessions"
    /\ Len(sessions[s].calls) < MaxCalls
    /\ sessions[s].de.ran = 0
    /\ \E jps \in SessionInputs :
          LET r == deserializeDisplayParts(heap, sessions[s].de, jps)
          IN /\ heap' = r.H
             /\ sessions' = [sessions EXCEPT ![s].de = r.de,
                                             ![s].calls = Append(@, [parts |-> jps, ret |-> r.ret])]
    /\ SessionStep

\* the Deserializer of session s runs its next deferred callback
ResolveIn(s) ==
    /\ pc = "sessions"
    /\ sessions[s].de.ran < Len(sessions[s].de.deferred)
    /\ LET r == sessionCallback(heap, sessions, s,
                                sessions[s].de.deferred[sessions[s].de.ran + 1])
       IN /\ heap' = r.H
          /\ sessions' = [sessions EXCEPT ![s].de = [r.de EXCEPT !.ran = @ + 1]]
    /\ SessionStep

Deserialize == \E s \in SessionIds : DeserializeIn(s)
Resolve == \E s \in SessionIds : ResolveIn(s)

NextSession == Deserialize \/ Resolve

SpecSession == InitSession /\ [][NextSession]_vars

-----------------------------------------------------------------------------
(* Properties of the round trip (SpecSerial)                               *)

\* every deferred callback of the session has run
Resolved == pc = "reconstructed" /\ de.ran = Len(de.deferred)

\* all the parts of a comment structure, summary first
AllPartsOf(v) ==
    {v.summary[i] : i \in 1..Len(v.summary)}
    \cup UNION {{v.blockTags[t].content[i] : i \in 1..Len(v.blockTags[t].content)}
                : t \in 1..Len(v.blockTags)}

\* the node identifiers a comment structure refers to
ReferencedNodes(v) == {p.target.v : p \in {q \in AllPartsOf(v) : q.target.t = "node"}}

\* the identifier has an entry in oldIdToNewId and the entry is a node of the project
Live(oldId) == oldId \in DOMAIN de.oldIdToNewId /\ de.oldIdToNewId[oldId] \in de.project

\* a part with its node target renumbered through oldIdToNewId
Renumbered(p) ==
    IF p.target.t = "node" THEN [p EXCEPT !.target.v = de.oldIdToNewId[@]] ELSE p

\* a comment structure with every node target renumbered and the fields
\* that are not serialized absent
Expected(v) ==
    [summary |-> [i \in 1..Len(v.summary) |-> Renumbered(v.summary[i])],
     blockTags |-> [t \in 1..Len(v.blockTags) |->
                      [v.blockTags[t] EXCEPT !.content =
                          [i \in 1..Len(@) |-> Renumbered(@[i])]]],
     modifierTags |-> v.modifierTags,
     label |-> v.label,
     sourcePath |-> Undef,
     discoveryId |-> Undef]

\* C1: once toObject, fromObject on a fresh comment and every deferred
\* callback have run, with every node the comment refers to mapped by
\* oldIdToNewId to a node of the project, the revived comment has the
\* summary, blockTags, modifierTags and label of the source (a node target
\* being the node the table maps it to) and no sourcePath or discoveryId.
RoundTrip ==
    (Resolved /\ \A id \in ReferencedNodes(CommentValue(heap, comment)) : Live(id))
        => CommentValue(heap, revived) = Expected(CommentValue(heap, comment))

\* C1's case: both the summary's and a tag's callback ran, the label was
\* extracted, every node is live and one of them is renumbered
RoundTripWitness ==
    /\ Resolved
    /\ de.ran = 2
    /\ heap.comments[comment].label # Undef
    /\ heap.comments[comment].sourcePath # Undef
    /\ heap.sets[heap.comments[comment].modifierTags] # {}
    /\ \A id \in ReferencedNodes(CommentValue(heap, comment)) : Live(id)
    /\ \E id \in ReferencedNodes(CommentValue(heap, comment)) : de.oldIdToNewId[id] # id

\* the links of the callbacks that have run, in the order they were resolved
RECURSIVE Flatten(_)
Flatten(ss) == IF ss = <<>> THEN <<>> ELSE Head(ss) \o Flatten(Tail(ss))
ResolvedLinks == IF pc = "reconstructed" THEN Flatten(SubSeq(de.deferred, 1, de.ran)) ELSE <<>>
PendingLinks ==
    IF pc = "reconstructed" THEN Flatten(SubSeq(de.deferred, de.ran + 1, Len(de.deferred)))
    ELSE <<>>

\* a target that is unset: undefined, or the null placeholder
Unset(target) == target.t \in {"none", "null"}

\* the original identifiers of the links that found no live node, in order
DanglingIds(links) ==
    LET dangling == SelectSeq(links, LAMBDA l : ~Live(l[1]))
    IN [i \in 1..Len(dangling) |-> dangling[i][1]]

\* C2: a resolved link whose original identifier has no live node leaves
\* its part's target unset and logs one warning naming that identifier, so
\* that the warnings are exactly the dangling identifiers in order; the
\* callback still completes and the other links of the list get a node.
DanglingReference ==
    /\ \A i \in 1..Len(ResolvedLinks) :
          LET l == ResolvedLinks[i]
          IN IF Live(l[1]) THEN heap.parts[l[2]].target.t = "node"
             ELSE Unset(heap.parts[l[2]].target)
    /\ de.warnings = DanglingIds(ResolvedLinks)
    /\ Len(de.warnings) =
          Cardinality({i \in 1..Len(ResolvedLinks) : Unset(heap.parts[ResolvedLinks[i][2]].target)})

\* C2's case: a callback ran over a list whose first link dangles and
\* whose second link is live
DanglingWitness ==
    /\ pc = "reconstructed" /\ de.ran >= 1
    /\ Len(de.deferred[1]) >= 2
    /\ ~Live(de.deferred[1][1][1])
    /\ Live(de.deferred[1][2][1])
    /\ Len(de.warnings) >= 1

\* a serialized part whose target is a graph-node identifier
HasNodeId(jp) == jp.target.t \in {"num", "reflection"}

\* the target a part that is not queued has from the start
SynchronousTarget(jp) ==
    CASE jp.target.t = "str" -> Target("url", jp.target.v)
      [] jp.target.t = "symobj" -> Target("sym", jp.target.v)
      [] jp.target.t = "media" -> Target("media", jp.target.v)
      [] OTHER -> NoTarget

\* the parts queued by the session, and those whose callback has not run
QueuedParts == {Flatten(de.deferred)[i][2] : i \in 1..Len(Flatten(de.deferred))}
PendingParts == {PendingLinks[i][2] : i \in 1..Len(PendingLinks)}

\* the reconstructed list at address a agrees with its serialized form jps
TwoPhaseList(jps, a) ==
    /\ Len(heap.arrs[a]) = Len(jps)
    /\ \A i \in 1..Len(jps) :
          LET p == heap.arrs[a][i]
          IN /\ HasNodeId(jps[i]) <=> p \in QueuedParts
             /\ ~HasNodeId(jps[i]) => heap.parts[p].target = SynchronousTarget(jps[i])
             /\ p \in PendingParts => Unset(heap.parts[p].target)

\* C3: until a deferred callback runs the node table is not read; a
\* reconstructed part is queued exactly when its serialized target is a
\* node identifier, it is unset for as long as its callback has not run,
\* and every other part has its final target as soon as it is reconstructed.
TwoPhase ==
    /\ de.ran = 0 => de.lookups = 0
    /\ pc = "reconstructed" =>
          /\ TwoPhaseList(obj.summary, heap.comments[revived].summary)
          /\ LET ts == heap.arrs[heap.comments[revived].blockTags]
             IN \A t \in 1..Len(ts) :
                   TwoPhaseList(obj.blockTags.v[t].content, heap.tags[ts[t]].content)

\* C3's case: reconstruction is over, no callback has run, and the summary
\* holds a queued part, whose node is in the project, next to a part with a
\* string target
TwoPhaseWitness ==
    /\ pc = "reconstructed" /\ de.ran = 0 /\ Len(de.deferred) = 2
    /\ \E i, j \in 1..Len(obj.summary) :
          /\ obj.summary[i].target.t = "num"
          /\ obj.summary[j].target.t = "str"
          /\ heap.arrs[heap.comments[revived].summary][i] \in PendingParts
          /\ Live(obj.summary[i].target.v)

\* C4: a resolved link is bound to the node oldIdToNewId maps its original
\* identifier to when that node is in the project, and to nothing else: with
\* no entry for the identifier the target stays unset, whatever the project
\* holds under the original identifier.
ResolutionThroughRemapping ==
    \A i \in 1..Len(ResolvedLinks) :
        LET oldId == ResolvedLinks[i][1]
            target == heap.parts[ResolvedLinks[i][2]].target
        IN /\ Live(oldId) => target = Target("node", de.oldIdToNewId[oldId])
           /\ oldId \notin DOMAIN de.oldIdToNewId => Unset(target)
           /\ target.t = "node" => oldId \in DOMAIN de.oldIdToNewId
                                   /\ target.v = de.oldIdToNewId[oldId]

\* C4's case: one resolved link has no entry although the project holds a
\* node under its original identifier, another is bound to a renumbered node
RemappingWitness ==
    /\ \E i \in 1..Len(ResolvedLinks) :
          /\ ResolvedLinks[i][1] \notin DOMAIN de.oldIdToNewId
          /\ ResolvedLinks[i][1] \in de.project
    /\ \E i \in 1..Len(ResolvedLinks) :
          /\ Live(ResolvedLinks[i][1])
          /\ de.oldIdToNewId[ResolvedLinks[i][1]] # ResolvedLinks[i][1]
          /\ heap.parts[ResolvedLinks[i][2]].target.t = "node"

-----------------------------------------------------------------------------
(* Properties of construction, clone and mutation (SpecComment)            *)

IsLabel(p) == p.kind = "inline-tag" /\ p.tag = "@label"

\* C5: after construction the summary holds no @label inline tag, the
\* label is the text of an @label tag of the given summary when it had
\* one, and the other parts are kept in their order.
LabelExtracted ==
    pc = "constructed" =>
        LET s == PartsOf(heap, heap.comments[comment].summary)
        IN /\ \A i \in 1..Len(s) : ~IsLabel(s[i])
           /\ (\E i \in 1..Len(given) : IsLabel(given[i]))
                 => \E i \in 1..Len(given) :
                       IsLabel(given[i]) /\ heap.comments[comment].label = given[i].text
           /\ s = SelectSeq(given, LAMBDA p : ~IsLabel(p))

\* C6: the clone is equal to its source in every field.
CloneEqualsSource ==
    (pc = "cloned" /\ steps = 0) => CommentValue(heap, copy) = CommentValue(heap, comment)

\* two comments have no array, part, tag or modifier set in common
NothingShared(H, a, b) ==
    /\ Owned(H, a).arrs \cap Owned(H, b).arrs = {}
    /\ Owned(H, a).parts \cap Owned(H, b).parts = {}
    /\ Owned(H, a).tags \cap Owned(H, b).tags = {}
    /\ Owned(H, a).sets \cap Owned(H, b).sets = {}

\* C7: from the moment the clone exists it shares no array, part, tag or
\* modifier set with its source, and a mutation applied to one of the two
\* comments leaves every field of the other unchanged.
CloneIndependence ==
    [][pc' = "cloned" =>
          /\ NothingShared(heap', comment', copy')
          /\ pc = "cloned" =>
                /\ last' = copy => CommentValue(heap', comment) = CommentValue(heap, comment)
                /\ last' = comment => CommentValue(heap', copy) = CommentValue(heap, copy)]_vars

\* C7's case: a mutation was applied to the clone of a comment that has a
\* summary and block tags, and the clone's summary now differs
CloneIndependenceWitness ==
    /\ pc = "cloned" /\ steps >= 1 /\ last = copy
    /\ Len(heap.arrs[heap.comments[comment].summary]) >= 1
    /\ Len(heap.arrs[heap.comments[comment].blockTags]) >= 1
    /\ CommentValue(heap, copy).summary # CommentValue(heap, comment).summary

-----------------------------------------------------------------------------
(* Properties of the header/body split (SpecSplit)                         *)

\* the first part of the argument that holds a newline, as the claims mean
\* it: a text or code part (0: none)
FirstNewlinePart == findIndexNL(given)

\* the argument is as it was when the call was made, and the body shares no
\* part with it
ArgumentUntouched ==
    /\ PartsOf(heap, parts) = given
    /\ {heap.arrs[parts][i] : i \in 1..Len(heap.arrs[parts])}
          \cap {heap.arrs[result.body][i] : i \in 1..Len(heap.arrs[result.body])} = {}

HeaderTrimmed ==
    pc = "done" =>
        \/ result.header = <<>>
        \/ /\ result.header[1] \notin Whitespace
           /\ result.header[Len(result.header)] \notin Whitespace

\* C10: the header holds no newline; when the first newline lies in a text
\* part the header is what precedes that newline, trimmed, and the body
\* starts with the text that follows it.
HeaderSingleLine ==
    pc = "done" =>
        /\ ~includesNL(result.header)
        /\ (FirstNewlinePart # 0 /\ given[FirstNewlinePart].kind = "text") =>
              LET text == given[FirstNewlinePart].text
                  split == indexOfNL(text)
                  after == substring(text, split + 1, Len(text))
              IN /\ result.header =
                       trim(combineDisplayParts(SubSeq(given, 1, FirstNewlinePart - 1))
                            \o substring(text, 1, split - 1))
                 /\ after # <<>> => PartsOf(heap, result.body)[1].text = after

-----------------------------------------------------------------------------
(* displayPartsToMarkdown and the code formatting of link tags *)

\* sub occurs in s as a run of consecutive elements
Contains(s, sub) ==
    \E i \in 0..(Len(s) - Len(sub)) : SubSeq(s, i + 1, i + Len(sub)) = sub

\* the elements that open or close code formatting
CodeMarks == {Backtick, "<code>", "</code>"}

\* a text in code formatting
InCode(text, html) ==
    IF html THEN <<"<code>">> \o text \o <<"</code>">>
    ELSE <<Backtick>> \o text \o <<Backtick>>

\* C11: a link tag's visible text is rendered in code formatting exactly
\* when the tag is @linkcode, whatever its target and whatever useHtml is:
\* what a @linkcode part adds to the output holds its text between
\* backticks (useHtml false) or between <code> and </code> (useHtml true),
\* what a @link or @linkplain part adds holds no code formatting, and a
\* @link part without target adds exactly its text.
LinkcodeFormatted ==
    pc = "rendered" =>
        \A i \in 1..Len(given) :
            (given[i].kind = "inline-tag" /\ given[i].tag \in LinkTags) =>
                /\ given[i].tag = "@linkcode" =>
                      Contains(markdown.pushed[i], InCode(given[i].text, useHtml))
                /\ given[i].tag # "@linkcode" =>
                      \A j \in 1..Len(markdown.pushed[i]) :
                          markdown.pushed[i][j] \notin CodeMarks
                /\ (given[i].tag = "@link" /\ given[i].target = NoTarget) =>
                      markdown.pushed[i] = given[i].text

-----------------------------------------------------------------------------
(* serializeDisplayParts *)

\* the serialized part out is the part src with its target reduced
Reduced(src, out) ==
    /\ out.kind = src.kind /\ out.text = src.text
    /\ src.kind = "inline-tag" =>
          /\ out.tag = src.tag
          /\ src.target.t = "node" => out.target = Target("num", src.target.v)
          /\ src.target.t = "url" => out.target = Target("str", src.target.v)
          /\ src.target.t = "sym" => out.target = Target("symobj", src.target.v)
          /\ src.target.t = "none" => out.target = NoTarget
    /\ src.kind = "relative-link" =>
          /\ src.target.t = "media" => out.target = Target("media", src.target.v)
          /\ src.target.t = "node" => out.target = Target("reflection", src.target.v)
    /\ out.target.t # "node"

\* the serialized list outs is the list srcs reduced part by part, in order
ReducedList(srcs, outs) ==
    /\ Len(outs) = Len(srcs)
    /\ \A i \in 1..Len(srcs) : Reduced(srcs[i], outs[i])

\* C12: toObject leaves every object as it was, and the serialized summary
\* and the serialized content of every block tag hold, in order, one object
\* per part with the part's kind and text and the reduced target: a node's
\* id for an inline tag's node, the same string, the symbol id's payload,
\* absent for absent, { media: n } for a media number (0 included),
\* { reflection: id } for a relative link's node; never a node itself.
SerializedReduced ==
    [][(pc = "discovered" /\ pc' = "serialized") =>
          LET this == heap.comments[comment]
              tags == heap.arrs[this.blockTags]
          IN /\ heap' = heap
             /\ ReducedList(PartsOf(heap, this.summary), obj'.summary)
             /\ tags # <<>> =>
                   /\ obj'.blockTags.present
                   /\ Len(obj'.blockTags.v) = Len(tags)
                   /\ \A t \in 1..Len(tags) :
                         ReducedList(PartsOf(heap, heap.tags[tags[t]].content),
                                     obj'.blockTags.v[t].content)]_vars

\* C12's case: a serialized summary with the media number 0 and a node's id
SerializedReducedWitness ==
    /\ pc = "serialized"
    /\ \E i, j \in 1..Len(obj.summary) :
          /\ obj.summary[i].target = Target("media", 0)
          /\ obj.summary[j].kind = "inline-tag" /\ obj.summary[j].target.t = "num"
    /\ obj.blockTags.present

-----------------------------------------------------------------------------
(* Looking up and removing block tags *)

\* the comments that exist
Comments == {comment, copy} \ {0}

\* the identifiers a tag is looked up by
Identifiers == {<<>>, <<"a">>, <<" ">>}

\* the positions of c's block tags that satisfy Test, and the k-th of them
Positions(c, Test(_)) ==
    {i \in 1..Len(heap.arrs[heap.comments[c].blockTags]) :
        Test(heap.tags[heap.arrs[heap.comments[c].blockTags][i]])}
Nth(S, k) == CHOOSE i \in S : Cardinality({j \in S : j <= i}) = k

\* ts holds exactly c's block tags at the positions S, in their order
Picks(ts, c, S) ==
    /\ Len(ts) = Cardinality(S)
    /\ \A k \in 1..Len(ts) : ts[k] = heap.arrs[heap.comments[c].blockTags][Nth(S, k)]

\* t is c's block tag at the least position of S, or undefined if S is empty
PicksFirst(t, c, S) ==
    IF S = {} THEN t = 0 ELSE t = heap.arrs[heap.comments[c].blockTags][Nth(S, 1)]

\* what the three lookups return in the current state
Lookups ==
    \A c \in Comments, n \in TagNames :
        /\ PicksFirst(getTag(heap, c, n), c, Positions(c, LAMBDA t : t.tag = n))
        /\ Picks(getTags(heap, c, n), c, Positions(c, LAMBDA t : t.tag = n))
        /\ \A id \in Identifiers :
              PicksFirst(getIdentifiedTag(heap, c, id, n), c,
                         Positions(c, LAMBDA t : t.tag = n /\ t.name = id))

\* what a step that is c.removeTags(n) does
Removal ==
    \A c \in Comments, n \in TagNames :
        (steps' = steps + 1 /\ heap' = removeTags(heap, c, n)) =>
            /\ getTag(heap', c, n) = 0
            /\ getTags(heap', c, n) = <<>>
            /\ Picks(heap'.arrs[heap.comments[c].blockTags], c,
                     Positions(c, LAMBDA t : t.tag # n))
            /\ heap'.tags = heap.tags /\ heap'.parts = heap.parts
            /\ heap'.comments = heap.comments /\ heap'.sets = heap.sets
            /\ heap'.arrs[heap.comments[c].summary] = heap.arrs[heap.comments[c].summary]

\* C13: in every state getTag(n) is the first block tag, in declaration
\* order, whose tag is n (undefined if there is none), getTags(n) is all of
\* them in that order, and getIdentifiedTag(id, n) is the first whose tag
\* is n and whose name is id; after removeTags(n), getTag(n) is undefined,
\* getTags(n) is empty, blockTags is the previous list without the tags
\* named n, the others unchanged and in their order, and summary,
\* modifierTags and label are untouched.
TagLookup == [](pc # "args" => Lookups) /\ [][Removal]_vars

\* C13's case: removeTags removed the two @param tags around a @returns
\* tag from the clone, and the source still has the three
TagLookupWitness ==
    /\ pc = "cloned" /\ steps = 1 /\ last = copy
    /\ Len(heap.arrs[heap.comments[comment].blockTags]) = 3
    /\ Len(heap.arrs[heap.comments[copy].blockTags]) = 1
    /\ getTag(heap, copy, "@returns") # 0
    /\ getTag(heap, comment, "@param") # 0
    /\ getIdentifiedTag(heap, comment, <<"a">>, "@param") # getTag(heap, comment, "@param")
    /\ getTags(heap, copy, "@param") = <<>>

-----------------------------------------------------------------------------
(* IndexedAccessType: toString and clone *)

\* the other one of subject and twin
Other(r) == IF r = subject THEN twin ELSE subject

\* every IndexedAccessType renders as its object type, "[", its index type, "]"
Bracketed ==
    \A t \in 1..Len(types) :
        types[t].type = "indexedAccess" =>
            TypeToString(types, t) =
                TypeToString(types, types[t].objectType) \o <<"[">>
                \o TypeToString(types, types[t].indexType) \o <<"]">>

\* what subject.clone() returned
FreshClone ==
    (pc = "types" /\ pc' = "typecloned") =>
        /\ twin' \notin 1..Len(types)
        /\ types'[twin'].type = "indexedAccess"
        /\ types'[twin'].objectType \notin 1..Len(types)
        /\ types'[twin'].indexType \notin 1..Len(types)
        /\ Reach(types', twin') \cap Reach(types', subject') = {}
        /\ TypeToString(types', types'[twin'].objectType)
              = TypeToString(types, types[subject'].objectType)
        /\ TypeToString(types', types'[twin'].indexType)
              = TypeToString(types, types[subject'].indexType)
        /\ TypeToString(types', twin') = TypeToString(types', subject')
        /\ \A t \in 1..Len(types) : types'[t] = types[t]

\* a mutation reached from one of the two leaves the other's string alone
OtherUnchanged ==
    (pc = "typecloned" /\ edits' = edits + 1) =>
        TypeToString(types', Other(touched')) = TypeToString(types, Other(touched'))

\* C14: toString() of an IndexedAccessType is objectType.toString(), "[",
\* indexType.toString(), "]"; clone() returns a new IndexedAccessType,
\* distinct from the source, whose objectType and indexType are clones of
\* the source's (distinct instances, same strings), so the clone's string
\* equals the source's, and replacing or mutating a child of one of the two
\* does not change the other's string.
IndexedAccessCloneIndependent == []Bracketed /\ [][FreshClone /\ OtherUnchanged]_vars

\* C14's case: the source shares a child with its own child, it was cloned,
\* and a mutation changed the string of one of the two
IndexedAccessWitness ==
    /\ pc = "typecloned" /\ edits = 1
    /\ types[types[subject].objectType].type = "indexedAccess"
    /\ types[types[subject].objectType].indexType = types[subject].indexType
    /\ TypeToString(types, twin) # TypeToString(types, subject)

-----------------------------------------------------------------------------
(* splitPartsToHeaderAndBody: inline tags of the header line *)

\* the rendering of the parts placed in the header: all of them when no
\* text or code part holds a newline, those before a code part that holds
\* the first newline, those before a text part that holds it together with
\* the text before the newline
HeaderRendering ==
    IF FirstNewlinePart = 0 THEN combineDisplayParts(given)
    ELSE IF given[FirstNewlinePart].kind = "code"
         THEN combineDisplayParts(SubSeq(given, 1, FirstNewlinePart - 1))
         ELSE combineDisplayParts(SubSeq(given, 1, FirstNewlinePart - 1))
              \o substring(given[FirstNewlinePart].text, 1,
                           indexOfNL(given[FirstNewlinePart].text) - 1)

\* C15: the header is the trimmed combineDisplayParts rendering of the
\* parts placed before the split point (with the text before the newline
\* of a split text part), so an inline tag of the header line appears as
\* {@tag text}, also when the split point backed up from a code part onto
\* the inline tag that precedes it.
HeaderSerializesInlineTags ==
    pc = "done" => result.header = trim(HeaderRendering)

-----------------------------------------------------------------------------
(* Two deserialization sessions (SpecSession) *)

\* the serialized part names a graph node by its identifier
NamesNode(jp) ==
    \/ jp.kind = "inline-tag" /\ jp.target.t = "num"
    \/ jp.kind = "relative-link" /\ jp.target.t = "reflection"

\* the calls of session s that had a part naming a node, in order
LinkingCalls(s) ==
    SelectSeq(sessions[s].calls, LAMBDA c : \E i \in 1..Len(c.parts) : NamesNode(c.parts[i]))

\* the addresses of the parts a call returned
PartsOfCall(H, call) == {H.arrs[call.ret][i] : i \in 1..Len(call.parts)}

\* the node the identifier stands for in the session of Deserializer d
NodeIn(d, oldId) ==
    IF oldId \in DOMAIN d.oldIdToNewId /\ d.oldIdToNewId[oldId] \in d.project
    THEN Target("node", d.oldIdToNewId[oldId])
    ELSE NoTarget

\* what a call of deserializeDisplayParts in session s does
CallEffect(s) ==
    LET call == sessions'[s].calls[Len(sessions'[s].calls)]
        queued == Len(sessions'[s].de.deferred) - Len(sessions[s].de.deferred)
        named == {i \in 1..Len(call.parts) : NamesNode(call.parts[i])}
    IN /\ queued = IF named = {} THEN 0 ELSE 1
       /\ queued = 1 =>
             LET links == sessions'[s].de.deferred[Len(sessions'[s].de.deferred)]
             IN {links[k][2] : k \in 1..Len(links)} = {heap'.arrs[call.ret][i] : i \in named}
       /\ SubSeq(sessions'[s].de.deferred, 1, Len(sessions[s].de.deferred))
             = sessions[s].de.deferred
       /\ \A a \in PartsOfCall(heap', call) : a \notin 1..Len(heap.parts)
       /\ \A a \in 1..Len(heap.parts) : heap'.parts[a] = heap.parts[a]
       /\ \A o \in SessionIds \ {s} : sessions'[o] = sessions[o]

\* what a run of the next deferred callback of session s does
CallbackEffect(s) ==
    LET d == sessions[s].de
        call == LinkingCalls(s)[d.ran + 1]
        named == {i \in 1..Len(call.parts) : NamesNode(call.parts[i])}
        lost == {i \in named : NodeIn(d, call.parts[i].target.v) = NoTarget}
    IN /\ \A i \in 1..Len(call.parts) :
             LET a == heap.arrs[call.ret][i]
             IN heap'.parts[a] =
                  IF i \in named
                  THEN [heap.parts[a] EXCEPT !.target = NodeIn(d, call.parts[i].target.v)]
                  ELSE heap.parts[a]
       /\ \A a \in 1..Len(heap.parts) :
             a \notin PartsOfCall(heap, call) => heap'.parts[a] = heap.parts[a]
       /\ Len(sessions'[s].de.warnings) = Len(d.warnings) + Cardinality(lost)
       /\ sessions'[s].de.oldIdToNewId = d.oldIdToNewId
       /\ sessions'[s].de.project = d.project
       /\ sessions'[s].de.deferred = d.deferred
       /\ \A o \in SessionIds \ {s} : sessions'[o] = sessions[o]

\* C16: with the calls and callback runs of two sessions interleaved, a
\* deferred callback of a session assigns only the targets of the parts its
\* own call reconstructed, from its own session's oldIdToNewId and project,
\* warns only on its own session's logger and changes no part and nothing
\* of the other session; a call of deserializeDisplayParts queues at most
\* one callback, none when no part names a graph node, and that callback
\* covers exactly the node-naming parts the call returned.
CallbacksStayInSession ==
    [][\A s \in SessionIds :
          /\ Len(sessions'[s].calls) = Len(sessions[s].calls) + 1 => CallEffect(s)
          /\ sessions'[s].de.ran = sessions[s].de.ran + 1 => CallbackEffect(s)]_vars

\* C16's case: both sessions reconstructed a list with links, A first, with
\* different remapping tables; A's callback ran and resolved a node, and
\* B's is still pending
CallbacksStayInSessionWitness ==
    /\ pc = "sessions"
    /\ sessions["A"].de.oldIdToNewId # sessions["B"].de.oldIdToNewId
    /\ sessions["A"].de.ran = 1 /\ sessions["B"].de.ran = 0
    /\ Len(sessions["B"].de.deferred) = 1
    /\ sessions["A"].calls[1].ret < sessions["B"].calls[1].ret
    /\ \E a \in PartsOfCall(heap, sessions["A"].calls[1]) : heap.parts[a].target.t = "node"
    /\ \E a \in PartsOfCall(heap, sessions["B"].calls[1]) : heap.parts[a].target.t = "null"

====
